---- MODULE Spec2Model ----
(***************************************************************************)
(* A model of pong-tui (src/main.rs): the process entry point main, the  *)
(* application state App { running, mode }, the render/input loop        *)
(* App::run, the event dispatcher handle_crossterm_events, the key      *)
(* state machine on_key_event and the renderer render/center_line.    *)
(***************************************************************************)
EXTENDS Integers, Sequences, FiniteSets, TLC

\* ---------------------------------------------------------------- bounds
\* Number of events the event source delivers in one run.
MaxEvents == 3
\* Largest viewport width / height the terminal reports to a draw.
MaxWidth == 3
MaxHeight == 2

\* ------------------------------------------------------------ data model
\* enum Mode { Menu, Game }
Mode == {"Menu", "Game"}

\* impl Default for Mode
Mode_default == "Menu"

\* Variant: a hand-written Default that starts the flag set.
bool_default_true == TRUE

\* bool::default(), the value #[derive(Default)] gives running
bool_default == FALSE

\* crossterm KeyModifiers: a set of flags.  Three of the flags are modelled;
\* a modifier state is any subset.
KeyModifiers == SUBSET {"SHIFT", "CONTROL", "ALT"}

\* The modifier state with the CONTROL flag alone (KeyModifiers::CONTROL).
CONTROL == {"CONTROL"}

\* crossterm KeyEventKind
KeyEventKind == {"Press", "Repeat", "Release"}

\* crossterm KeyCode: the codes the program distinguishes, one other
\* non-character code (Tab) and one other character ('x').
KeyCode ==
    {[code |-> "Esc", ch |-> ""], [code |-> "Enter", ch |-> ""],
     [code |-> "Tab", ch |-> ""]}
    \cup {[code |-> "Char", ch |-> c] : c \in {"q", "c", "C", "x"}}

\* crossterm KeyEvent { code, modifiers, kind }
KeyEvent ==
    {[type |-> "Key", kind |-> k, modifiers |-> m, code |-> kc.code, ch |-> kc.ch] :
        k \in KeyEventKind, m \in KeyModifiers, kc \in KeyCode}

\* An event without key payload (the program matches these with wildcards).
PlainEvent(t) ==
    [type |-> t, kind |-> "None", modifiers |-> {}, code |-> "None", ch |-> ""]

\* No event has been read yet.
NoEvent == PlainEvent("None")

\* ratatui Rect (position is not used by the program, only the size)
Rect == [width : 0..MaxWidth, height : 0..MaxHeight]

\* ---------------------------------------------------------- the renderer
Min(a, b) == IF a <= b THEN a ELSE b

\* u16::saturating_sub
saturating_sub(a, b) == IF a >= b THEN a - b ELSE 0

\* " ".repeat(n), as a sequence of characters
repeat(c, n) == [i \in 1..n |-> c]

\* lines.join(sep), as a sequence of characters
RECURSIVE join(_, _)
join(lines, sep) ==
    IF Len(lines) = 0 THEN <<>>
    ELSE IF Len(lines) = 1 THEN lines[1]
    ELSE lines[1] \o <<sep>> \o join(Tail(lines), sep)

\* Variant: the column is rounded up, computed in 16 bits.
center_col_round_up(area) ==
    Min(((area.width + 1) % 65536) \div 2, area.width)

\* Variant: the column is half the width, not half of width - 1.
center_col_half(area) == Min(area.width \div 2, area.width)

\* let center_col = ((area.width.saturating_sub(1) / 2) as usize).min(area.width as usize);
center_col(area) == Min(saturating_sub(area.width, 1) \div 2, area.width)

\* The frame content when nothing is rendered into the area.
EmptyFrame(area) ==
    [widget |-> "None", title |-> <<>>, text |-> <<>>, area |-> area]

\* Variant: the guard against an empty viewport is missing.
center_line_no_guard(area) ==
    LET lines == [i \in 1..area.height |->
                     repeat(" ", center_col(area)) \o <<"#">>]
    IN  [widget |-> "Paragraph", title |-> <<>>,
         text |-> join(lines, "\n"), area |-> area]

\* App::center_line
center_line(area) ==
    IF area.height < 1 \/ area.width < 1
    THEN EmptyFrame(area)
    ELSE LET lines == [i \in 1..area.height |->
                          repeat(" ", center_col(area)) \o <<"#">>]
         IN  [widget |-> "Paragraph", title |-> <<>>,
              text |-> join(lines, "\n"), area |-> area]

\* App::render, as the content handed to the frame (the backquotes of the
\* menu text are written as apostrophes)
render(m, area) ==
    IF m = "Menu"
    THEN [widget |-> "Paragraph", title |-> <<"Pong Game\n">>,
          text |-> <<"Press 'Esc', 'Ctrl-C' or 'q' to stop running.", "\n",
                     "Press 'Enter' to start game">>,
          area |-> area]
    ELSE center_line(area)

\* ------------------------------------------------- the key state machine
\* Variant: quitting also puts the application back on the menu.
quit_to_menu(app) == [app EXCEPT !.running = FALSE, !.mode = "Menu"]

\* Variant: quit leaves the flag as it is.
quit_ignored(app) == app

\* App::quit
quit(app) == [app EXCEPT !.running = FALSE]

\* Variant: the confirm key toggles between the two screens.
start_game_toggle(app) ==
    [app EXCEPT !.mode = IF app.mode = "Menu" THEN "Game" ELSE "Menu"]

\* Variant: starting the game also clears the running flag.
start_game_stops(app) == [app EXCEPT !.mode = "Game", !.running = FALSE]

\* App::start_game
start_game(app) == [app EXCEPT !.mode = "Game"]

\* Variant: Enter is listed in the quit arm as well.
on_key_event_enter_quits(app, key) ==
    IF \/ key.code \in {"Esc", "Enter"}
       \/ (key.code = "Char" /\ key.ch = "q")
       \/ (key.modifiers = CONTROL /\ key.code = "Char" /\ key.ch \in {"c", "C"})
    THEN quit(app)
    ELSE app

\* Variant: Enter is accepted without modifiers only.
on_key_event_enter_nomod(app, key) ==
    IF \/ key.code = "Esc"
       \/ (key.code = "Char" /\ key.ch = "q")
       \/ (key.modifiers = CONTROL /\ key.code = "Char" /\ key.ch \in {"c", "C"})
    THEN quit(app)
    ELSE IF key.modifiers = {} /\ key.code = "Enter"
    THEN start_game(app)
    ELSE app

\* Variant: 'c' and 'C' quit under every modifier state, like 'q'.
on_key_event_c_any(app, key) ==
    IF \/ key.code = "Esc"
       \/ (key.code = "Char" /\ key.ch \in {"q", "c", "C"})
    THEN quit(app)
    ELSE IF key.code = "Enter"
    THEN start_game(app)
    ELSE app

\* Variant: the 'c' arm tests that the CONTROL flag is among the modifiers.
on_key_event_ctrl_contains(app, key) ==
    IF \/ key.code = "Esc"
       \/ (key.code = "Char" /\ key.ch = "q")
       \/ ("CONTROL" \in key.modifiers /\ key.code = "Char"
             /\ key.ch \in {"c", "C"})
    THEN quit(app)
    ELSE IF key.code = "Enter"
    THEN start_game(app)
    ELSE app

\* App::on_key_event: the match on (key.modifiers, key.code)
on_key_event(app, key) ==
    IF \/ key.code = "Esc"
       \/ (key.code = "Char" /\ key.ch = "q")
       \/ (key.modifiers = CONTROL /\ key.code = "Char" /\ key.ch \in {"c", "C"})
    THEN quit(app)
    ELSE IF key.code = "Enter"
    THEN start_game(app)
    ELSE app

\* ------------------------------------------------------------------ state
VARIABLES
    pc,            \* position of the process in main / App::run
    running,       \* App.running
    mode,          \* App.mode
    event,         \* the last value returned by event::read()
    screen,        \* the content of the last frame drawn
    frames,        \* number of frames drawn
    reads,         \* number of events read
    failed,        \* the I/O operation that failed: none, install, draw, read
    result,        \* main's local result, the value returned by run
    exit,          \* the value main returned
    session,       \* the terminal session is active (raw mode, alt screen)
    inits,         \* number of calls of ratatui::init
    restores,      \* number of calls of ratatui::restore
    area,          \* frame.area() of the last draw
    col,           \* center_col, the local of the last center_line
    twin           \* a second run of the loop, stepped beside this one

vars == <<pc, running, mode, event, screen, frames, reads, failed, result,
          exit, session, inits, restores, area, col, twin>>

app_vars == <<running, mode>>
term_vars == <<session, inits, restores>>
io_vars == <<event, screen, frames, reads>>
view_vars == <<area, col>>

\* The second run before its loop: the fields of its App and its last frame.
NoTwin ==
    [running |-> bool_default, mode |-> Mode_default,
     screen |-> EmptyFrame([width |-> 0, height |-> 0]),
     area |-> [width |-> 0, height |-> 0]]

\* The process at the entry of main.  The App value does not exist before
\* App::new(); running and mode are read from pc = "run" on only.
Init ==
    /\ pc = "main"
    /\ running = bool_default
    /\ mode = Mode_default
    /\ event = NoEvent
    /\ screen = EmptyFrame([width |-> 0, height |-> 0])
    /\ frames = 0
    /\ reads = 0
    /\ failed = "none"
    /\ result = "none"
    /\ exit = "none"
    /\ session = FALSE
    /\ inits = 0
    /\ restores = 0
    /\ area = [width |-> 0, height |-> 0]
    /\ col = 0
    /\ twin = NoTwin

\* ------------------------------------------------------------------- main
\* color_eyre::install()?  succeeds
MainInstall ==
    /\ pc = "main"
    /\ pc' = "init"
    /\ UNCHANGED <<view_vars, twin, app_vars, io_vars, term_vars, failed, result, exit>>

\* color_eyre::install()?  fails: main returns the error
MainInstallFail ==
    /\ pc = "main"
    /\ pc' = "done"
    /\ failed' = "install"
    /\ exit' = "err"
    /\ UNCHANGED <<view_vars, twin, app_vars, io_vars, term_vars, result>>

\* let terminal = ratatui::init();
MainInit ==
    /\ pc = "init"
    /\ session' = TRUE
    /\ inits' = inits + 1
    /\ pc' = "new"
    /\ UNCHANGED <<view_vars, twin, app_vars, io_vars, restores, failed, result, exit>>

\* App::new(): Self::default()
AppNew ==
    /\ pc = "new"
    /\ running' = bool_default
    /\ mode' = Mode_default
    /\ pc' = "run"
    /\ UNCHANGED <<view_vars, twin, io_vars, term_vars, failed, result, exit>>

\* Variant: main returns without restoring the terminal.
MainRestore_skipped ==
    /\ pc = "restore"
    /\ pc' = "return"
    /\ UNCHANGED <<view_vars, twin, app_vars, io_vars, term_vars, failed, result, exit>>

\* ratatui::restore();
MainRestore ==
    /\ pc = "restore"
    /\ session' = FALSE
    /\ restores' = restores + 1
    /\ pc' = "return"
    /\ UNCHANGED <<view_vars, twin, app_vars, io_vars, inits, failed, result, exit>>

\* result   (main's tail expression)
MainReturn ==
    /\ pc = "return"
    /\ exit' = result
    /\ pc' = "done"
    /\ UNCHANGED <<view_vars, twin, app_vars, io_vars, term_vars, failed, result>>

\* --------------------------------------------------------------- App::run
\* self.running = true;
RunStart ==
    /\ pc = "run"
    /\ running' = TRUE
    /\ pc' = "while"
    /\ UNCHANGED <<view_vars, twin, mode, io_vars, term_vars, failed, result, exit>>

\* Variant: the loop head does not test the flag.
RunWhile_unconditional ==
    /\ pc = "while"
    /\ pc' = "draw"
    /\ UNCHANGED <<view_vars, twin, app_vars, io_vars, term_vars, failed, result, exit>>

\* while self.running { ... }  Ok(())
RunWhile ==
    /\ pc = "while"
    /\ IF running
       THEN pc' = "draw" /\ UNCHANGED result
       ELSE pc' = "restore" /\ result' = "ok"
    /\ UNCHANGED <<view_vars, twin, app_vars, io_vars, term_vars, failed, exit>>

\* Variant: rendering the game on an empty viewport falls back to the menu.
RunDraw_falls_back ==
    /\ pc = "draw"
    /\ area' \in Rect
    /\ screen' = render(mode, area')
    /\ col' = IF mode = "Game" /\ ~(area'.height < 1 \/ area'.width < 1)
              THEN center_col(area') ELSE col
    /\ mode' = IF mode = "Game" /\ (area'.height < 1 \/ area'.width < 1)
               THEN "Menu" ELSE mode
    /\ frames' = frames + 1
    /\ pc' = "read"
    /\ UNCHANGED <<twin, running, event, reads, term_vars, failed, result, exit>>

\* terminal.draw(|frame| self.render(frame))?  succeeds; frame.area() is
\* the size the terminal has at this draw
RunDraw ==
    /\ pc = "draw"
    /\ area' \in Rect
    /\ screen' = render(mode, area')
    /\ col' = IF mode = "Game" /\ ~(area'.height < 1 \/ area'.width < 1)
              THEN center_col(area') ELSE col
    /\ frames' = frames + 1
    /\ pc' = "read"
    /\ UNCHANGED <<twin, app_vars, event, reads, term_vars, failed, result, exit>>

\* terminal.draw(...)?  fails: run returns the error
RunDrawFail ==
    /\ pc = "draw"
    /\ failed' = "draw"
    /\ result' = "err"
    /\ pc' = "restore"
    /\ UNCHANGED <<view_vars, twin, app_vars, io_vars, term_vars, exit>>

\* ------------------------------------------- App::handle_crossterm_events
\* Event::Key(key) if key.kind == KeyEventKind::Press => self.on_key_event(key)
HandleKeyPress ==
    /\ pc = "read"
    /\ reads < MaxEvents
    /\ \E key \in KeyEvent :
         /\ key.kind = "Press"
         /\ event' = key
         /\ LET app == on_key_event([running |-> running, mode |-> mode], key)
            IN  running' = app.running /\ mode' = app.mode
    /\ reads' = reads + 1
    /\ pc' = "while"
    /\ UNCHANGED <<view_vars, twin, screen, frames, term_vars, failed, result, exit>>

\* Variant: only key releases are dropped, repeats go to on_key_event.
HandleKeyOther_forwards_repeat ==
    /\ pc = "read"
    /\ reads < MaxEvents
    /\ \E key \in KeyEvent :
         /\ key.kind # "Press"
         /\ event' = key
         /\ LET app == IF key.kind = "Repeat"
                       THEN on_key_event([running |-> running, mode |-> mode], key)
                       ELSE [running |-> running, mode |-> mode]
            IN  running' = app.running /\ mode' = app.mode
    /\ reads' = reads + 1
    /\ pc' = "while"
    /\ UNCHANGED <<view_vars, twin, screen, frames, term_vars, failed, result, exit>>

\* Event::Key(key) of another kind: falls to  _ => {}
HandleKeyOther ==
    /\ pc = "read"
    /\ reads < MaxEvents
    /\ \E key \in KeyEvent : key.kind # "Press" /\ event' = key
    /\ reads' = reads + 1
    /\ pc' = "while"
    /\ UNCHANGED <<view_vars, twin, app_vars, screen, frames, term_vars, failed, result, exit>>

\* Variant: after a mouse event the next event is read without a render.
HandleMouse_drain ==
    /\ pc = "read"
    /\ reads < MaxEvents
    /\ event' = PlainEvent("Mouse")
    /\ reads' = reads + 1
    /\ pc' = "read"
    /\ UNCHANGED <<view_vars, twin, app_vars, screen, frames, term_vars, failed, result, exit>>

\* Event::Mouse(_) => {}
HandleMouse ==
    /\ pc = "read"
    /\ reads < MaxEvents
    /\ event' = PlainEvent("Mouse")
    /\ reads' = reads + 1
    /\ pc' = "while"
    /\ UNCHANGED <<view_vars, twin, app_vars, screen, frames, term_vars, failed, result, exit>>

\* Variant: a resize puts the application back on the menu.
HandleResize_to_menu ==
    /\ pc = "read"
    /\ reads < MaxEvents
    /\ event' = PlainEvent("Resize")
    /\ mode' = "Menu"
    /\ reads' = reads + 1
    /\ pc' = "while"
    /\ UNCHANGED <<view_vars, twin, running, screen, frames, term_vars, failed, result, exit>>

\* Event::Resize(_, _) => {}
HandleResize ==
    /\ pc = "read"
    /\ reads < MaxEvents
    /\ event' = PlainEvent("Resize")
    /\ reads' = reads + 1
    /\ pc' = "while"
    /\ UNCHANGED <<view_vars, twin, app_vars, screen, frames, term_vars, failed, result, exit>>

\* _ => {}   for the remaining events (focus gained or lost, paste)
HandleOther ==
    /\ pc = "read"
    /\ reads < MaxEvents
    /\ \E t \in {"FocusGained", "FocusLost", "Paste"} : event' = PlainEvent(t)
    /\ reads' = reads + 1
    /\ pc' = "while"
    /\ UNCHANGED <<view_vars, twin, app_vars, screen, frames, term_vars, failed, result, exit>>

\* Variant: the error of a failed read is dropped and the loop goes on.
HandleReadFail_ignored ==
    /\ pc = "read"
    /\ failed' = "read"
    /\ pc' = "while"
    /\ UNCHANGED <<view_vars, twin, app_vars, io_vars, term_vars, result, exit>>

\* event::read()?  fails: handle_crossterm_events and run return the error
HandleReadFail ==
    /\ pc = "read"
    /\ failed' = "read"
    /\ result' = "err"
    /\ pc' = "restore"
    /\ UNCHANGED <<view_vars, twin, app_vars, io_vars, term_vars, exit>>

Next ==
    \/ MainInstall
    \/ MainInstallFail
    \/ MainInit
    \/ AppNew
    \/ RunStart
    \/ RunWhile
    \/ RunDraw
    \/ RunDrawFail
    \/ HandleKeyPress
    \/ HandleKeyOther
    \/ HandleMouse
    \/ HandleResize
    \/ HandleOther
    \/ HandleReadFail
    \/ MainRestore
    \/ MainReturn

Spec == Init /\ [][Next]_vars

\* -------------------------------------------------------------- fairness
\* The steps of the process that do not wait for the terminal: once one of
\* them is the next statement, it is executed.
ProgramStep ==
    MainInit \/ AppNew \/ RunStart \/ RunWhile \/ MainRestore \/ MainReturn

\* The process under the scheduling of a sequential program: statements
\* that do not block are executed; event::read() may block for ever.
LiveSpec == Init /\ [][Next]_vars /\ WF_vars(ProgramStep)

\* ---------------------------------------------- the renderer on its own
\* Largest viewport width / height handed to the renderer on its own.
MaxWideWidth == 10
MaxWideHeight == 3

WideRect == [width : 0..MaxWideWidth, height : 0..MaxWideHeight]

\* The Enter key press that leads to the game screen.
EnterPress ==
    [type |-> "Key", kind |-> "Press", modifiers |-> {}, code |-> "Enter",
     ch |-> ""]

\* The loop of run about to call render(frame): on the menu before any
\* event, or on the game screen after the menu frame and the Enter press;
\* the terminal has any size of WideRect.
InitRender ==
    /\ pc = "render"
    /\ running = TRUE
    /\ mode \in Mode
    /\ area \in WideRect
    /\ event = IF mode = "Menu" THEN NoEvent ELSE EnterPress
    /\ screen = IF mode = "Menu"
                THEN EmptyFrame([width |-> 0, height |-> 0])
                ELSE render("Menu", area)
    /\ frames = IF mode = "Menu" THEN 0 ELSE 1
    /\ reads = IF mode = "Menu" THEN 0 ELSE 1
    /\ failed = "none"
    /\ result = "none"
    /\ exit = "none"
    /\ session = TRUE
    /\ inits = 1
    /\ restores = 0
    /\ col = 0
    /\ twin = NoTwin

\* self.render(frame) with frame.area() = area
RenderFrame ==
    /\ pc = "render"
    /\ screen' = render(mode, area)
    /\ col' = IF mode = "Game" /\ ~(area.height < 1 \/ area.width < 1)
              THEN center_col(area) ELSE col
    /\ frames' = frames + 1
    /\ pc' = "rendered"
    /\ UNCHANGED <<area, twin, app_vars, event, reads, term_vars, failed, result, exit>>

SpecRender == InitRender /\ [][RenderFrame]_vars

\* ------------------------------------------ the bar column on its own
\* u16::MAX, the largest width or height of a Rect
U16Max == 65535

\* The renderer in Game mode at the entry of center_line, after the menu
\* frame and the Enter press, for a terminal of any 16-bit width.
InitCenterCol ==
    /\ pc = "center_line"
    /\ running = TRUE
    /\ mode = "Game"
    /\ area \in [width : 0..U16Max, height : {1}]
    /\ event = EnterPress
    /\ screen = render("Menu", area)
    /\ frames = 1
    /\ reads = 1
    /\ failed = "none"
    /\ result = "none"
    /\ exit = "none"
    /\ session = TRUE
    /\ inits = 1
    /\ restores = 0
    /\ col = 0
    /\ twin = NoTwin

\* if area.height < 1 || area.width < 1 { return; }
CenterLineGuard ==
    /\ pc = "center_line"
    /\ pc' = IF area.height < 1 \/ area.width < 1
             THEN "returned" ELSE "center_col"
    /\ UNCHANGED <<view_vars, twin, app_vars, io_vars, term_vars, failed, result, exit>>

\* let center_col = ...;
CenterLineCol ==
    /\ pc = "center_col"
    /\ col' = center_col(area)
    /\ pc' = "lines"
    /\ UNCHANGED <<area, twin, app_vars, io_vars, term_vars, failed, result, exit>>

NextCenterCol == CenterLineGuard \/ CenterLineCol

SpecCenterCol == InitCenterCol /\ [][NextCenterCol]_vars

\* ------------------------------------------------ two runs side by side
\* The events fed to the two runs: the confirm key, a quit key, an inert
\* key and a mouse event.
PairEvents ==
    {EnterPress,
     [type |-> "Key", kind |-> "Press", modifiers |-> {}, code |-> "Char",
      ch |-> "q"],
     [type |-> "Key", kind |-> "Press", modifiers |-> {}, code |-> "Char",
      ch |-> "x"],
     PlainEvent("Mouse")}

\* handle_crossterm_events on an App value: a key press goes to
\* on_key_event, any other event changes nothing.
handle_event(app, e) ==
    IF e.type = "Key" /\ e.kind = "Press" THEN on_key_event(app, e) ELSE app

\* Both runs have executed  self.running = true  and stand at the loop test.
InitTwoRuns ==
    /\ pc = "while"
    /\ running = TRUE
    /\ mode = Mode_default
    /\ event = NoEvent
    /\ screen = EmptyFrame([width |-> 0, height |-> 0])
    /\ frames = 0
    /\ reads = 0
    /\ failed = "none"
    /\ result = "none"
    /\ exit = "none"
    /\ session = TRUE
    /\ inits = 1
    /\ restores = 0
    /\ area = [width |-> 0, height |-> 0]
    /\ col = 0
    /\ twin = [NoTwin EXCEPT !.running = TRUE]

\* while self.running  in both runs; the side-by-side stepping ends when
\* one of the runs leaves its loop
PairWhile ==
    /\ pc = "while"
    /\ pc' = IF running /\ twin.running THEN "draw" ELSE "apart"
    /\ UNCHANGED <<view_vars, twin, app_vars, io_vars, term_vars, failed, result, exit>>

\* Variant: a run keeps the frame it drew last as long as its mode has not
\* changed, whatever the size of the terminal is now.
PairDraw_cached ==
    /\ pc = "draw"
    /\ area' \in Rect
    /\ screen' = IF frames > 0 /\ (screen.title # <<>>) = (mode = "Menu")
                 THEN [screen EXCEPT !.area = area']
                 ELSE render(mode, area')
    /\ col' = IF mode = "Game" /\ ~(area'.height < 1 \/ area'.width < 1)
              THEN center_col(area') ELSE col
    /\ \E a2 \in Rect :
         twin' = [twin EXCEPT
                    !.area = a2,
                    !.screen = IF frames > 0 /\ (twin.screen.title # <<>>) = (twin.mode = "Menu")
                               THEN [twin.screen EXCEPT !.area = a2]
                               ELSE render(twin.mode, a2)]
    /\ frames' = frames + 1
    /\ pc' = "read"
    /\ UNCHANGED <<app_vars, event, reads, term_vars, failed, result, exit>>

\* terminal.draw(|frame| self.render(frame))  in both runs, each with the
\* size its own terminal has
PairDraw ==
    /\ pc = "draw"
    /\ area' \in Rect
    /\ screen' = render(mode, area')
    /\ col' = IF mode = "Game" /\ ~(area'.height < 1 \/ area'.width < 1)
              THEN center_col(area') ELSE col
    /\ \E a2 \in Rect :
         twin' = [twin EXCEPT !.area = a2, !.screen = render(twin.mode, a2)]
    /\ frames' = frames + 1
    /\ pc' = "read"
    /\ UNCHANGED <<app_vars, event, reads, term_vars, failed, result, exit>>

\* handle_crossterm_events in both runs, each with its own event
PairHandle ==
    /\ pc = "read"
    /\ reads < MaxEvents
    /\ \E e1 \in PairEvents, e2 \in PairEvents :
         /\ event' = e1
         /\ LET app == handle_event([running |-> running, mode |-> mode], e1)
                app2 == handle_event([running |-> twin.running,
                                      mode |-> twin.mode], e2)
            IN  /\ running' = app.running /\ mode' = app.mode
                /\ twin' = [twin EXCEPT !.running = app2.running,
                                        !.mode = app2.mode]
    /\ reads' = reads + 1
    /\ pc' = "while"
    /\ UNCHANGED <<view_vars, screen, frames, term_vars, failed, result, exit>>

NextTwoRuns == PairWhile \/ PairDraw \/ PairHandle

SpecTwoRuns == InitTwoRuns /\ [][NextTwoRuns]_vars

\* =============================================================== claims
\* The step of handle_crossterm_events that read one event.
EventRead == pc = "read" /\ reads' = reads + 1

\* The event just read is a key press forwarded to on_key_event.
KeyPressRead == EventRead /\ event'.type = "Key" /\ event'.kind = "Press"

\* Quit keys as the specification words them: Escape, 'q', or 'c'/'C' with
\* the control modifier among the modifiers.
QuitKeyStated(e) ==
    \/ e.code = "Esc"
    \/ (e.code = "Char" /\ e.ch = "q")
    \/ (e.code = "Char" /\ e.ch \in {"c", "C"} /\ "CONTROL" \in e.modifiers)

\* Quit keys with 'c'/'C' under the control modifier and no other.
QuitKeyExact(e) ==
    \/ e.code = "Esc"
    \/ (e.code = "Char" /\ e.ch = "q")
    \/ (e.code = "Char" /\ e.ch \in {"c", "C"} /\ e.modifiers = {"CONTROL"})

\* The loop of run has been entered (run's first statement has executed).
InOrAfterLoop == pc \in {"while", "draw", "read", "restore", "return", "done"}

\* The process has left the loop of run.
AfterLoop == pc \in {"restore", "return", "done"}

\* C1: mode is always Menu or Game, and every step either leaves mode
\* unchanged or takes it from Menu to Game on a key press of Enter; no step
\* takes it from Game back to Menu.
C1_ModeOnlyMenuToGame ==
    /\ [](mode \in {"Menu", "Game"})
    /\ [][mode' # mode =>
            /\ mode = "Menu" /\ mode' = "Game"
            /\ KeyPressRead /\ event'.code = "Enter"]_vars

C1_Witness ==
    /\ mode = "Game" /\ reads >= 2
    /\ event.kind = "Press" /\ event.code = "Enter"

\* C2 as stated: no step from construction to exit changes running from
\* false to true.
C2_Original == [][running' # running => running /\ ~running']_vars

\* C2 amended: running goes from false to true in one step only, the first
\* statement of run, before any render or read; every other change is
\* true -> false on a quit key press; once false inside the loop, the loop
\* is left at its next test and running stays false to the end.
C2_RunningOnlyFalls ==
    /\ [][running' # running =>
            \/ /\ pc = "run" /\ ~running /\ running'
               /\ frames = 0 /\ reads = 0
            \/ /\ InOrAfterLoop /\ running /\ ~running'
               /\ KeyPressRead /\ QuitKeyExact(event')]_vars
    /\ [][InOrAfterLoop /\ ~running =>
            ~running' /\ (pc = "while" => pc' = "restore")]_vars

C2_Witness == pc = "done" /\ ~running /\ reads >= 1 /\ QuitKeyExact(event)

\* C3 as stated: the value returned by App::new(), before run is called,
\* has running = true and mode = Menu.
C3_Original == pc = "run" => (running = TRUE /\ mode = "Menu")

\* C3 amended: the value returned by App::new() has running = false and
\* mode = Menu; running is true with mode = Menu when the loop of run is
\* first tested, before the first render.
C3_FreshApp ==
    /\ pc = "run" => (running = FALSE /\ mode = "Menu")
    /\ (pc = "while" /\ frames = 0) => (running = TRUE /\ mode = "Menu")

C3_Witness == pc = "run" /\ inits = 1 /\ frames = 0

\* C4 as stated: in either mode a key press of Escape, of 'q', or of
\* 'c'/'C' with a control modifier, whatever other modifiers accompany it,
\* sets running to false and leaves mode unchanged.
C4_Original ==
    [][KeyPressRead /\ QuitKeyStated(event') =>
          ~running' /\ mode' = mode]_vars

\* C4 amended: in either mode a key press of Escape or of 'q' (under any
\* modifiers), or of 'c'/'C' with the control modifier and no other
\* modifier, sets running to false and leaves mode unchanged.
C4_QuitKeys ==
    [][KeyPressRead /\ QuitKeyExact(event') =>
          ~running' /\ mode' = mode]_vars

C4_Witness ==
    /\ ~running /\ mode = "Game" /\ pc = "while"
    /\ event.kind = "Press" /\ event.ch = "C" /\ event.modifiers = {"CONTROL"}

\* C5: a key press of Enter in Menu gives mode = Game with running
\* unchanged; in Game it changes neither mode nor running.
C5_EnterStartsGame ==
    [][KeyPressRead /\ event'.code = "Enter" =>
          /\ running' = running
          /\ (mode = "Menu" => mode' = "Game")
          /\ (mode = "Game" => mode' = "Game")]_vars

C5_Witness ==
    /\ mode = "Game" /\ running /\ pc = "while" /\ reads = 1
    /\ event.kind = "Press" /\ event.code = "Enter"
    /\ event.modifiers = {"ALT"}

\* C6: in either mode a key press that is neither a quit key nor Enter
\* leaves running and mode unchanged (also when 'c'/'C' comes with the
\* control modifier and a further modifier).
C6_OtherKeysInert ==
    [][(KeyPressRead /\ ~QuitKeyExact(event') /\ event'.code # "Enter") =>
          (running' = running /\ mode' = mode)]_vars

C6_Witness ==
    /\ running /\ mode = "Game" /\ pc = "while"
    /\ event.kind = "Press" /\ event.ch = "c" /\ event.modifiers = {}

\* C7: a mouse or resize event changes neither running nor mode, is
\* consumed, and the loop goes on to its next render.
C7_MouseResizeInert ==
    /\ [][(EventRead /\ event'.type \in {"Mouse", "Resize"}) =>
            (running' = running /\ mode' = mode /\ pc' = "while")]_vars
    /\ [][(pc = "while" /\ event.type \in {"Mouse", "Resize"}) =>
            pc' = "draw"]_vars

C7_Witness ==
    /\ event.type = "Resize" /\ pc = "read" /\ mode = "Game"
    /\ frames = 3 /\ reads = 2

\* C8: once running is false no further frame is rendered and no further
\* event is read and the loop is left at its next test; the loop is not
\* left while running is true and no I/O operation has failed; after a
\* clean exit the process result is success.
C8_LoopExit ==
    /\ [][(InOrAfterLoop /\ ~running) =>
            (frames' = frames /\ reads' = reads)]_vars
    /\ [][(pc = "while" /\ ~running) => pc' = "restore"]_vars
    /\ [](AfterLoop /\ failed = "none" => ~running /\ result = "ok")
    /\ [](pc = "done" /\ failed = "none" => exit = "ok")

C8_Witness ==
    /\ pc = "done" /\ failed = "none" /\ ~running /\ exit = "ok"
    /\ frames = reads /\ reads >= 2

\* C9: the terminal session is initialized at most once and restored at
\* most once, never restored without having been initialized, and on every
\* way out of the loop of run (clean quit, failed draw, failed read) it has
\* been restored before main returns its result.
C9_RestoreOnEveryExit ==
    /\ inits <= 1 /\ restores <= inits
    /\ pc \in {"new", "run", "while", "draw", "read", "restore"} =>
          (inits = 1 /\ restores = 0 /\ session)
    /\ (pc \in {"return", "done"} /\ failed # "install") =>
          (inits = 1 /\ restores = 1 /\ ~session)
    /\ exit # "none" => restores = inits

C9_Witness ==
    /\ pc = "done" /\ failed = "draw" /\ inits = 1 /\ restores = 1
    /\ exit = "err"

\* C10: after a draw or an event read has failed there is no further
\* render, read or change of running or mode; the failure leaves the loop
\* in that very step, and run and main return the error.
C10_FailureAborts ==
    /\ [][failed # "none" =>
            (frames' = frames /\ reads' = reads
             /\ running' = running /\ mode' = mode)]_vars
    /\ [][(failed = "none" /\ failed' \in {"draw", "read"}) =>
            (pc' = "restore" /\ result' = "err")]_vars
    /\ [](failed \in {"draw", "read"} => AfterLoop /\ result = "err")
    /\ [](pc = "done" /\ failed # "none" => exit = "err")

C10_Witness ==
    /\ pc = "done" /\ failed = "read" /\ exit = "err" /\ result = "err"
    /\ frames = 2 /\ reads = 1

\* The mode a frame shows: the menu panel carries a title, the bar does not.
FrameMode(f) == IF f.title # <<>> THEN "Menu" ELSE "Game"

\* C11: renders and event reads alternate, starting with a render: when an
\* event is awaited exactly one more frame than events has been handled and
\* that frame shows the mode all events so far have produced; at the loop
\* test and before a draw every frame has been followed by its event; no
\* event is read before the first frame.
C11_RenderReadAlternate ==
    /\ pc = "read" => (frames = reads + 1 /\ FrameMode(screen) = mode)
    /\ pc \in {"while", "draw"} => frames = reads
    /\ reads <= frames /\ frames <= reads + 1
    /\ reads >= 1 => frames >= 1

C11_Witness ==
    /\ pc = "read" /\ frames = 3 /\ reads = 2 /\ mode = "Game"
    /\ screen.widget = "Paragraph" /\ event.type = "Key" /\ event.code = "Enter"

\* The lines of a text: the text cut at its newline characters.
RECURSIVE SplitLines(_)
SplitLines(t) ==
    IF \A i \in 1..Len(t) : t[i] # "\n"
    THEN <<t>>
    ELSE LET k == CHOOSE i \in 1..Len(t) :
                      t[i] = "\n" /\ \A j \in 1..(i - 1) : t[j] # "\n"
         IN  <<SubSeq(t, 1, k - 1)>> \o SplitLines(SubSeq(t, k + 1, Len(t)))

\* C12: in Game mode with width W >= 1 and height H >= 1 the rendered text
\* has exactly H lines, each of min(W, floor((W-1)/2)) blanks followed by
\* one block glyph; for W = 10, H = 3 these are 3 lines of 4 blanks and the
\* glyph.
C12_BarLines ==
    (pc = "rendered" /\ mode = "Game" /\ area.width >= 1 /\ area.height >= 1) =>
        LET ls == SplitLines(screen.text)
            W  == area.width
            cc == IF W <= (W - 1) \div 2 THEN W ELSE (W - 1) \div 2
        IN  /\ screen.widget = "Paragraph"
            /\ Len(ls) = area.height
            /\ \A i \in 1..Len(ls) :
                  /\ Len(ls[i]) = cc + 1
                  /\ \A j \in 1..cc : ls[i][j] = " "
                  /\ ls[i][cc + 1] = "#"
            /\ (W = 10 /\ area.height = 3) =>
                  screen.text = <<" ", " ", " ", " ", "#", "\n",
                                  " ", " ", " ", " ", "#", "\n",
                                  " ", " ", " ", " ", "#">>

C12_Witness ==
    /\ pc = "rendered" /\ mode = "Game"
    /\ area.width = 10 /\ area.height = 3 /\ Len(screen.text) = 17

\* C13: in Game mode a draw with width 0 or height 0 renders nothing; the
\* draw step itself completes without failure and the loop goes on to read
\* the next event.
C13_EmptyViewport ==
    /\ [](pc = "read" /\ mode = "Game" /\ (area.width = 0 \/ area.height = 0)
            => screen.widget = "None" /\ screen.text = <<>>
               /\ screen.title = <<>>)
    /\ [][(pc = "draw" /\ frames' = frames + 1 /\ mode = "Game"
             /\ (area'.width = 0 \/ area'.height = 0))
            => (pc' = "read" /\ failed' = "none" /\ result' = "none"
                /\ running' /\ col' = col)]_vars

C13_Witness ==
    /\ pc = "draw" /\ mode = "Game" /\ reads = 2 /\ frames = 2
    /\ area.width = 0 /\ area.height = MaxHeight /\ screen.widget = "None"
    /\ running /\ failed = "none"

C15_OneTransition ==
    [][KeyPressRead =>
          /\ ~(running' # running /\ mode' # mode)
          /\ running' # running => (running /\ ~running')
          /\ mode' # mode => (mode = "Menu" /\ mode' = "Game")
          /\ UNCHANGED <<screen, frames, area, col, failed, result, exit,
                         session, inits, restores>>]_vars

C15_Witness ==
    /\ pc = "while" /\ reads = 2 /\ mode = "Game" /\ ~running
    /\ event.kind = "Press" /\ event.ch = "q" /\ event.modifiers = {"SHIFT"}

\* C16 as stated: render leaves running and mode unchanged, and no step
\* other than the handling of a key event changes either field.
C16_Original ==
    /\ [][frames' # frames => (running' = running /\ mode' = mode)]_vars
    /\ [][(running' # running \/ mode' # mode) => KeyPressRead]_vars

\* C16 amended: render leaves running and mode unchanged in both modes and
\* for every viewport; apart from the first statement of run, which sets
\* running from false to true before the first render, no step other than
\* the handling of a key press changes either field.
C16_OnlyInputMutates ==
    /\ [][frames' # frames => (running' = running /\ mode' = mode)]_vars
    /\ [][(running' # running \/ mode' # mode) =>
            \/ KeyPressRead
            \/ (pc = "run" /\ ~running /\ running' /\ mode' = mode
                /\ frames = 0)]_vars

C16_Witness ==
    /\ pc = "read" /\ frames = 2 /\ reads = 1 /\ mode = "Game" /\ running
    /\ (area.width = 0 \/ area.height = 0)

\* C17: a key event of kind Release or Repeat, whatever its key, is
\* consumed without reaching the state machine: running and mode are
\* unchanged and the loop goes on.
C17_OnlyPressForwarded ==
    [][(EventRead /\ event'.type = "Key" /\ event'.kind \in {"Release", "Repeat"})
          => (running' = running /\ mode' = mode /\ pc' = "while")]_vars

C17_Witness ==
    /\ pc = "draw" /\ running /\ mode = "Menu" /\ reads = 2
    /\ event.kind = "Repeat" /\ event.code = "Esc"

\* A quit key press has been read.
QuitDelivered ==
    /\ reads >= 1 /\ event.type = "Key" /\ event.kind = "Press"
    /\ QuitKeyExact(event)

\* C18: when no I/O operation has failed and a quit key press has been
\* read, the process eventually has left the loop, restored the terminal
\* and returned success, whatever the mode; and as long as no quit key
\* press has been read and no I/O operation has failed the loop is not
\* left.
C18_QuitTerminates ==
    /\ (QuitDelivered /\ failed = "none") ~>
          (pc = "done" /\ exit = "ok" /\ restores = 1 /\ ~session)
    /\ []((AfterLoop /\ failed = "none") => QuitDelivered)
    /\ []((failed = "none" /\ ~QuitDelivered) => pc \notin {"restore", "return", "done"})

C18_Witness ==
    /\ pc = "done" /\ exit = "ok" /\ restores = 1 /\ mode = "Game"
    /\ QuitDelivered /\ event.code = "Esc" /\ failed = "none"

\* C19: on a key press, Escape and 'q' clear running under every modifier
\* state and Enter gives mode = Game under every modifier state; 'c' and
\* 'C' clear running when the modifier state is exactly Control, and under
\* any other modifier state (none, or Control with a further modifier)
\* leave running true and mode unchanged.
C19_ModifierSensitivity ==
    [][KeyPressRead =>
          /\ (event'.code = "Esc" \/ (event'.code = "Char" /\ event'.ch = "q"))
                => ~running'
          /\ event'.code = "Enter" => (mode' = "Game" /\ running')
          /\ (event'.code = "Char" /\ event'.ch \in {"c", "C"}) =>
                IF event'.modifiers = {"CONTROL"}
                THEN ~running'
                ELSE running' /\ mode' = mode]_vars

C19_Witness ==
    /\ pc = "while" /\ running /\ mode = "Game" /\ reads = 2
    /\ event.kind = "Press" /\ event.ch = "C"
    /\ event.modifiers = {"CONTROL", "SHIFT"}

\* C20: for every width W in 1..65535 the bar column is floor((W-1)/2), at
\* most W - 1, so the glyph lies inside the viewport; the clamp to W does
\* not change the value; W - 1 does not go below 0 and the column stays
\* within 16 bits.
C20_CenterColInside ==
    /\ pc \in {"center_col", "lines"} => area.width \in 1..U16Max
    /\ pc = "lines" =>
          LET W == area.width
          IN  /\ col = (W - 1) \div 2
              /\ col <= W - 1
              /\ (W - 1) \div 2 <= W
              /\ W - 1 >= 0
              /\ col \in 0..U16Max

C20_Witness == pc = "lines" /\ area.width = U16Max /\ col = 32767

TypeOK ==
    /\ pc \in {"main", "init", "new", "run", "while", "draw", "read",
               "restore", "return", "done"}
    /\ running \in BOOLEAN
    /\ mode \in Mode
    /\ frames \in 0..(MaxEvents + 1)
    /\ reads \in 0..MaxEvents
    /\ failed \in {"none", "install", "draw", "read"}
    /\ result \in {"none", "ok", "err"}
    /\ exit \in {"none", "ok", "err"}
    /\ session \in BOOLEAN
    /\ area \in Rect
    /\ col \in 0..MaxWidth
====
